---------------------------- MODULE Spec2Model ----------------------------
(***************************************************************************)
(* A model of marc2xml (src/marc2xml/main.py): the MARC record codec       *)
(* (Record.decode_marc, Record.as_marc, Field), the XML projection          *)
(* (Record.as_xml, Field.as_xml) and the text escaper (clean, unescape).    *)
(*                                                                         *)
(* Representation.  A Python bytes object is a sequence of integers in     *)
(* 0..255.  A Python str is a sequence of Unicode code points (integers).  *)
(* A conversion between the two (decode('ascii'), decode('utf-8'),         *)
(* encode('utf-8'), int(), '%05d' % n) is an operator that computes the    *)
(* conversion; one that can raise returns a record [ok, v].                *)
(* An exception is the name of its class, "none" when nothing was raised.  *)
(***************************************************************************)
EXTENDS Integers, Sequences, FiniteSets, TLC

(***************************************************************************)
(* Constants of the program (main.py lines 25-27).                         *)
(***************************************************************************)
LEADER_LENGTH == 24
DIRECTORY_ENTRY_LENGTH == 12
SUBFIELD_INDICATOR == 31
END_OF_FIELD == 30
END_OF_RECORD == 29

(***************************************************************************)
(* Character literals.  Ord(c) is Python's ord() on the printable ASCII    *)
(* characters; S(<<"a","b">>) is the str (or ASCII bytes) literal 'ab'.    *)
(***************************************************************************)
AsciiChars ==
  << " ", "!", "\"", "#", "$", "%", "&", "'", "(", ")", "*", "+", ",", "-",
     ".", "/", "0", "1", "2", "3", "4", "5", "6", "7", "8", "9", ":", ";",
     "<", "=", ">", "?", "@", "A", "B", "C", "D", "E", "F", "G", "H", "I",
     "J", "K", "L", "M", "N", "O", "P", "Q", "R", "S", "T", "U", "V", "W",
     "X", "Y", "Z", "[", "\\", "]", "^", "_", "GRAVE", "a", "b", "c", "d", "e",
     "f", "g", "h", "i", "j", "k", "l", "m", "n", "o", "p", "q", "r", "s",
     "t", "u", "v", "w", "x", "y", "z", "{", "|", "}", "~" >>

Ord(c) == 31 + (CHOOSE i \in 1..95 : AsciiChars[i] = c)

S(cs) == [i \in DOMAIN cs |-> Ord(cs[i])]

ALEPH_CONTROL_FIELDS == { S(<<"D", "B", " ">>), S(<<"S", "Y", "S">>) }

(***************************************************************************)
(* Python sequence primitives.                                             *)
(***************************************************************************)
\* An index of a slice s[a:b]: a negative index counts from the end, and
\* every index is clamped to 0..len(s).
PyIdx(n, i) ==
  IF i < 0 THEN (IF n + i < 0 THEN 0 ELSE n + i)
  ELSE IF i > n THEN n ELSE i

\* s[a:b]
Slice(s, a, b) == SubSeq(s, PyIdx(Len(s), a) + 1, PyIdx(Len(s), b))

\* s[a:]
SliceFrom(s, a) == Slice(s, a, Len(s))

RECURSIVE Concat(_)
\* the concatenation of a sequence of sequences
Concat(parts) ==
  IF parts = << >> THEN << >> ELSE Head(parts) \o Concat(Tail(parts))

IsDigitChar(c) == c >= 48 /\ c <= 57

\* str.isdigit() on text whose digits are the ASCII digits
IsDigit(s) == Len(s) > 0 /\ \A i \in DOMAIN s : IsDigitChar(s[i])

RECURSIVE StrLess(_, _)
\* s < t on str: lexicographic order by code point
StrLess(s, t) ==
  IF t = << >> THEN FALSE
  ELSE IF s = << >> THEN TRUE
  ELSE IF Head(s) # Head(t) THEN Head(s) < Head(t)
  ELSE StrLess(Tail(s), Tail(t))

\* bytes.decode('ascii'): every byte below 128, or UnicodeDecodeError
AsciiDecode(bs) ==
  IF \A i \in DOMAIN bs : bs[i] < 128
  THEN [ok |-> TRUE, v |-> bs]
  ELSE [ok |-> FALSE, v |-> << >>]

IsCont(b) == b >= 128 /\ b <= 191

\* The number of bytes of the UTF-8 sequence that starts bs, 0 when bs
\* starts with no well-formed sequence (strict: no overlong form, no
\* surrogate, nothing above U+10FFFF).
Utf8SeqLen(bs) ==
  LET n  == Len(bs)
      b0 == bs[1]
  IN  IF b0 < 128 THEN 1
      ELSE IF b0 >= 194 /\ b0 <= 223
        THEN (IF n >= 2 /\ IsCont(bs[2]) THEN 2 ELSE 0)
      ELSE IF b0 >= 224 /\ b0 <= 239
        THEN (IF /\ n >= 3
                 /\ IsCont(bs[2])
                 /\ IsCont(bs[3])
                 /\ (b0 = 224 => bs[2] >= 160)
                 /\ (b0 = 237 => bs[2] <= 159)
              THEN 3 ELSE 0)
      ELSE IF b0 >= 240 /\ b0 <= 244
        THEN (IF /\ n >= 4
                 /\ IsCont(bs[2])
                 /\ IsCont(bs[3])
                 /\ IsCont(bs[4])
                 /\ (b0 = 240 => bs[2] >= 144)
                 /\ (b0 = 244 => bs[2] <= 143)
              THEN 4 ELSE 0)
      ELSE 0

\* The code point of the well-formed UTF-8 sequence of k bytes starting bs
Utf8CodePoint(bs, k) ==
  IF k = 1 THEN bs[1]
  ELSE IF k = 2 THEN (bs[1] - 192) * 64 + (bs[2] - 128)
  ELSE IF k = 3
    THEN (bs[1] - 224) * 4096 + (bs[2] - 128) * 64 + (bs[3] - 128)
  ELSE (bs[1] - 240) * 262144 + (bs[2] - 128) * 4096
         + (bs[3] - 128) * 64 + (bs[4] - 128)

RECURSIVE Utf8DecodeFrom(_, _)
\* One step of the decoder: bs starts with a sequence of k bytes (k = 0: with
\* none), decoded holds the code points before bs
Utf8DecodeNext(bs, k, decoded) ==
  IF k = 0 THEN [ok |-> FALSE, v |-> << >>]
  ELSE Utf8DecodeFrom(SubSeq(bs, k + 1, Len(bs)),
                      Append(decoded, Utf8CodePoint(bs, k)))

Utf8DecodeFrom(bs, decoded) ==
  IF bs = << >> THEN [ok |-> TRUE, v |-> decoded]
  ELSE Utf8DecodeNext(bs, Utf8SeqLen(bs), decoded)

\* bytes.decode('utf-8') (strict): the code points, or UnicodeDecodeError
Utf8Decode(bs) == Utf8DecodeFrom(bs, << >>)

IsSurrogate(c) == c >= 55296 /\ c <= 57343

\* The UTF-8 bytes of one code point
Utf8Bytes(c) ==
  IF c < 128 THEN <<c>>
  ELSE IF c < 2048 THEN <<192 + (c \div 64), 128 + (c % 64)>>
  ELSE IF c < 65536
    THEN <<224 + (c \div 4096), 128 + ((c \div 64) % 64), 128 + (c % 64)>>
  ELSE <<240 + (c \div 262144), 128 + ((c \div 4096) % 64),
         128 + ((c \div 64) % 64), 128 + (c % 64)>>

\* str.encode('utf-8'): the bytes, or UnicodeEncodeError on a surrogate
Utf8Encode(s) ==
  IF \E i \in DOMAIN s : IsSurrogate(s[i])
  THEN [ok |-> FALSE, v |-> << >>]
  ELSE [ok |-> TRUE, v |-> Concat([i \in DOMAIN s |-> Utf8Bytes(s[i])])]


(***************************************************************************)
(* int() and the % formats.                                                *)
(***************************************************************************)
IsSpaceChar(c) == c \in {9, 10, 11, 12, 13, 32}

RECURSIVE LStrip(_)
LStrip(s) ==
  IF s # << >> /\ IsSpaceChar(Head(s)) THEN LStrip(Tail(s)) ELSE s

RECURSIVE RStrip(_)
RStrip(s) ==
  IF s # << >> /\ IsSpaceChar(s[Len(s)])
  THEN RStrip(SubSeq(s, 1, Len(s) - 1)) ELSE s

\* The value of a digit of a base up to 16, -1 for any other character
DigitVal(c) ==
  IF c >= 48 /\ c <= 57 THEN c - 48
  ELSE IF c >= 97 /\ c <= 102 THEN c - 87
  ELSE IF c >= 65 /\ c <= 70 THEN c - 55
  ELSE -1

IsBaseDigit(c, base) == DigitVal(c) >= 0 /\ DigitVal(c) < base

\* The largest value of a C int: chr() takes its argument as one
MaxCInt == 2147483647

RECURSIVE Accumulate(_, _, _)
\* The value of a run of digits and underscores, most significant first,
\* on top of acc; over is set once the value exceeds MaxCInt (the exact
\* value is then no longer carried).
Accumulate(ds, base, acc) ==
  IF ds = << >> THEN acc
  ELSE IF Head(ds) = Ord("_") THEN Accumulate(Tail(ds), base, acc)
  ELSE Accumulate(Tail(ds), base,
         IF acc.over \/ acc.v > (MaxCInt - DigitVal(Head(ds))) \div base
         THEN [over |-> TRUE, v |-> 0]
         ELSE [over |-> FALSE, v |-> acc.v * base + DigitVal(Head(ds))])

\* int(s) / int(s, base) for base 10 and 16, on str or bytes: surrounding
\* whitespace, a sign, for base 16 a 0x prefix, then digits, with single
\* underscores between digits (or right after the prefix).  ok is FALSE
\* for ValueError.
HasSign(t) == t # << >> /\ Head(t) \in {Ord("+"), Ord("-")}

HasPrefix(u, base) ==
  base = 16 /\ Len(u) >= 2 /\ u[1] = Ord("0") /\ u[2] \in {Ord("x"), Ord("X")}

WellFormedDigits(body, pre, base) ==
  /\ Len(body) > 0
  /\ \A i \in 1..Len(body) :
       \/ IsBaseDigit(body[i], base)
       \/ /\ body[i] = Ord("_")
          /\ i < Len(body)
          /\ IsBaseDigit(body[i + 1], base)
          /\ (i = 1 => pre)

IntValue(acc, neg) ==
  [ok |-> TRUE, over |-> acc.over, v |-> IF neg THEN 0 - acc.v ELSE acc.v]

ParseDigits(body, pre, neg, base) ==
  IF ~WellFormedDigits(body, pre, base)
  THEN [ok |-> FALSE, over |-> FALSE, v |-> 0]
  ELSE IntValue(Accumulate(body, base, [over |-> FALSE, v |-> 0]), neg)

ParseUnsigned(u, neg, base) ==
  ParseDigits(IF HasPrefix(u, base) THEN SubSeq(u, 3, Len(u)) ELSE u,
              HasPrefix(u, base), neg, base)

ParseStripped(t, base) ==
  ParseUnsigned(IF HasSign(t) THEN Tail(t) ELSE t,
                HasSign(t) /\ Head(t) = Ord("-"), base)

ParseInt(s, base) == ParseStripped(RStrip(LStrip(s)), base)

RECURSIVE Digits(_)
\* The decimal digits of n >= 0
Digits(n) ==
  IF n < 10 THEN <<48 + n>> ELSE Digits(n \div 10) \o <<48 + (n % 10)>>

RECURSIVE PadLeft(_, _, _)
PadLeft(s, w, c) == IF Len(s) >= w THEN s ELSE PadLeft(<<c>> \o s, w, c)

\* '%0<w>d' % n for n >= 0: at least w digits, more when n needs more
FormatInt(n, w) == PadLeft(Digits(n), w, Ord("0"))

\* '%03s' % tag: right-justified in three columns; a longer tag is kept
PadTag(tag) == PadLeft(tag, 3, Ord(" "))


(***************************************************************************)
(* The text escaper: clean (lines 334-342) and unescape (lines 312-331),   *)
(* with the library functions clean calls.                                 *)
(*                                                                         *)
(* The tables below hold what the library holds for the characters the     *)
(* model's texts are written in: the letters a g l m p t x, the digits,    *)
(* the punctuation & # ; < > and U+0338 (a combining mark), and whatever   *)
(* decoding entities over these produces.                                  *)
(***************************************************************************)
\* The length of the longest prefix of r whose characters are all in cs
RunIn(r, cs) ==
  LET bad == {i \in DOMAIN r : r[i] \notin cs}
  IN  IF bad = {} THEN Len(r)
      ELSE (CHOOSE i \in bad : \A j \in bad : i <= j) - 1

\* The length of the longest prefix of r with no character in cs
RunNotIn(r, cs) ==
  LET bad == {i \in DOMAIN r : r[i] \in cs}
  IN  IF bad = {} THEN Len(r)
      ELSE (CHOOSE i \in bad : \A j \in bad : i <= j) - 1

DecDigitChars == 48..57
HexDigitChars == (48..57) \cup (65..70) \cup (97..102)

\* html.entities.html5, for the names spelled with a g l m p t x
Html5Table ==
  {  [name |-> S(<<"a", "m", "a", "l", "g", ";">>), cp |-> 10815],
     [name |-> S(<<"a", "m", "p">>), cp |-> 38],
     [name |-> S(<<"a", "m", "p", ";">>), cp |-> 38],
     [name |-> S(<<"a", "p", ";">>), cp |-> 8776],
     [name |-> S(<<"g", "a", "m", "m", "a", ";">>), cp |-> 947],
     [name |-> S(<<"g", "a", "p", ";">>), cp |-> 10886],
     [name |-> S(<<"g", "g", ";">>), cp |-> 8811],
     [name |-> S(<<"g", "g", "g", ";">>), cp |-> 8921],
     [name |-> S(<<"g", "l", ";">>), cp |-> 8823],
     [name |-> S(<<"g", "l", "a", ";">>), cp |-> 10917],
     [name |-> S(<<"g", "t">>), cp |-> 62],
     [name |-> S(<<"g", "t", ";">>), cp |-> 62],
     [name |-> S(<<"l", "a", "p", ";">>), cp |-> 10885],
     [name |-> S(<<"l", "a", "t", ";">>), cp |-> 10923],
     [name |-> S(<<"l", "g", ";">>), cp |-> 8822],
     [name |-> S(<<"l", "l", ";">>), cp |-> 8810],
     [name |-> S(<<"l", "t">>), cp |-> 60],
     [name |-> S(<<"l", "t", ";">>), cp |-> 60],
     [name |-> S(<<"m", "a", "l", "t", ";">>), cp |-> 10016],
     [name |-> S(<<"m", "a", "p", ";">>), cp |-> 8614],
     [name |-> S(<<"m", "p", ";">>), cp |-> 8723],
     [name |-> S(<<"p", "m", ";">>), cp |-> 177],
     [name |-> S(<<"x", "m", "a", "p", ";">>), cp |-> 10236] }

\* html.entities.name2codepoint, for the names spelled with a g l m p t x
Name2CodepointTable ==
  {  [name |-> S(<<"a", "m", "p">>), cp |-> 38],
     [name |-> S(<<"g", "a", "m", "m", "a">>), cp |-> 947],
     [name |-> S(<<"g", "t">>), cp |-> 62],
     [name |-> S(<<"l", "t">>), cp |-> 60] }

\* html._invalid_charrefs for the references 128..159 (Windows-1252)
Cp1252 ==
  << 8364, 129, 8218, 402, 8222, 8230, 8224, 8225, 710, 8240, 352, 8249,
     338, 141, 381, 143, 144, 8216, 8217, 8220, 8221, 8226, 8211, 8212,
     732, 8482, 353, 8250, 339, 157, 382, 376 >>

\* html._invalid_codepoints
InvalidCodepoint(n) ==
  \/ n >= 1 /\ n <= 8
  \/ n = 11
  \/ n >= 14 /\ n <= 31
  \/ n >= 127 /\ n <= 159
  \/ n >= 64976 /\ n <= 65007
  \/ n >= 65534 /\ (n % 65536) >= 65534

\* html._replace_charref on a numeric reference '#...' (g is the match's
\* group 1): the replacement text for the number num
NumericReplacement(num) ==
  IF num.over THEN <<65533>>
  ELSE IF num.v = 0 THEN <<65533>>
  ELSE IF num.v = 13 THEN <<13>>
  ELSE IF num.v >= 128 /\ num.v <= 159 THEN <<Cp1252[num.v - 127]>>
  ELSE IF IsSurrogate(num.v) \/ num.v > 1114111 THEN <<65533>>
  ELSE IF InvalidCodepoint(num.v) THEN << >>
  ELSE <<num.v>>

IsHexRef(g) == g[2] \in {Ord("x"), Ord("X")}

\* s.rstrip(';') on a text with at most one semicolon at its end
StripSemi(ds) ==
  IF ds[Len(ds)] = Ord(";") THEN SubSeq(ds, 1, Len(ds) - 1) ELSE ds

ReplaceNumeric(g) ==
  NumericReplacement(
    ParseInt(StripSemi(SubSeq(g, IF IsHexRef(g) THEN 3 ELSE 2, Len(g))),
             IF IsHexRef(g) THEN 16 ELSE 10))

\* html._replace_charref on a named reference, table being html5: the name
\* itself when the table has it, else the longest prefix of at least two
\* characters the table has, else the text unchanged
ReplaceNamedIn(g, table) ==
  LET xs == {x \in 1..Len(g) :
               /\ x = Len(g) \/ x >= 2
               /\ \E e \in table : e.name = SubSeq(g, 1, x)}
      x  == CHOOSE y \in xs : \A z \in xs : z <= y
  IN  IF xs = {} THEN <<Ord("&")>> \o g
      ELSE <<(CHOOSE e \in table : e.name = SubSeq(g, 1, x)).cp>>
             \o SubSeq(g, x + 1, Len(g))

ReplaceNamed(g) == ReplaceNamedIn(g, Html5Table)

\* The characters html._charref excludes from a name: \t \n \f space < & # ;
NameStopChars == {9, 10, 12, 32, Ord("<"), Ord("&"), Ord("#"), Ord(";")}

\* k, or k + 1 when a semicolon follows the first k characters of r
WithSemi(r, k) == IF Len(r) > k /\ r[k + 1] = Ord(";") THEN k + 1 ELSE k

DecRun(r) ==
  IF r # << >> /\ r[1] = Ord("#") THEN RunIn(Tail(r), DecDigitChars) ELSE 0

HexRun(r) ==
  IF Len(r) >= 2 /\ r[1] = Ord("#") /\ r[2] \in {Ord("x"), Ord("X")}
  THEN RunIn(SubSeq(r, 3, Len(r)), HexDigitChars) ELSE 0

NameRun(r) ==
  IF RunNotIn(r, NameStopChars) > 32 THEN 32 ELSE RunNotIn(r, NameStopChars)

CharrefMatch(r, dec, hex, nam) ==
  IF dec > 0 THEN WithSemi(r, 1 + dec)
  ELSE IF hex > 0 THEN WithSemi(r, 2 + hex)
  ELSE IF nam > 0 THEN WithSemi(r, nam)
  ELSE 0

\* The length of the match of html._charref's group 1 at the start of r (the
\* text after an ampersand), 0 when the pattern does not match:
\*   #[0-9]+;? | #[xX][0-9a-fA-F]+;? | [^\t\n\f <&#;]{1,32};?
CharrefLen(r) == CharrefMatch(r, DecRun(r), HexRun(r), NameRun(r))

\* html._replace_charref on the match's group 1
ReplaceCharref(g) ==
  IF g[1] = Ord("#") THEN ReplaceNumeric(g) ELSE ReplaceNamed(g)

RECURSIVE HtmlUnescapeFrom(_, _)
\* s starts with an ampersand and m is the length of the match after it
HtmlUnescapeMatch(s, m, done) ==
  IF m = 0 THEN HtmlUnescapeFrom(Tail(s), Append(done, Head(s)))
  ELSE HtmlUnescapeFrom(SubSeq(s, m + 2, Len(s)),
                        done \o ReplaceCharref(SubSeq(s, 2, m + 1)))

\* html.unescape on the rest s of a text, done being the result so far
HtmlUnescapeFrom(s, done) ==
  IF s = << >> THEN done
  ELSE IF Head(s) # Ord("&")
    THEN HtmlUnescapeFrom(Tail(s), Append(done, Head(s)))
  ELSE HtmlUnescapeMatch(s, CharrefLen(Tail(s)), done)

\* html.unescape(s)
HtmlUnescape(s) == HtmlUnescapeFrom(s, << >>)

\* The canonical compositions among the characters of the model's texts:
\* <starter, combining mark, composed character>
NfcPairs ==
  { <<60, 824, 8814>>, <<62, 824, 8815>>, <<8776, 824, 8777>>,
    <<8822, 824, 8824>>, <<8823, 824, 8825>> }

RECURSIVE Nfc(_)
\* unicodedata.normalize('NFC', s): no character of the model's texts
\* decomposes to anything but itself, so NFC composes the pairs above
Nfc(s) ==
  IF Len(s) < 2 THEN s
  ELSE IF \E p \in NfcPairs : p[1] = s[1] /\ p[2] = s[2]
    THEN LET p == CHOOSE q \in NfcPairs : q[1] = s[1] /\ q[2] = s[2]
         IN  Nfc(<<p[3]>> \o SubSeq(s, 3, Len(s)))
  ELSE <<s[1]>> \o Nfc(Tail(s))

\* The non-ASCII characters of the model's texts that the pattern \w
\* matches (letters): e-acute, the letters of Windows-1252, gamma
NonAsciiWordChars == {233, 338, 339, 352, 353, 376, 381, 382, 402, 710, 947}

\* \w in a str pattern
IsWordChar(c) ==
  \/ c >= 48 /\ c <= 57
  \/ c >= 65 /\ c <= 90
  \/ c >= 97 /\ c <= 122
  \/ c = Ord("_")
  \/ c \in NonAsciiWordChars

\* The length of the longest prefix of r of characters \w matches
WordRun(r) ==
  LET bad == {i \in DOMAIN r : ~IsWordChar(r[i])}
  IN  IF bad = {} THEN Len(r)
      ELSE (CHOOSE i \in bad : \A j \in bad : i <= j) - 1

\* 2 when s starts "&#", else 1
HashLen(s) == IF Len(s) >= 2 /\ s[2] = Ord("#") THEN 2 ELSE 1

EntityMatch(s, h, w) ==
  IF s[1] = Ord("&") /\ w > 0 /\ Len(s) > h + w /\ s[h + w + 1] = Ord(";")
  THEN h + w + 1 ELSE 0

\* The length of the match of "&#?\w+;" at the start of the text s (not
\* empty), 0 when it does not match
EntityLen(s) ==
  EntityMatch(s, HashLen(s), WordRun(SubSeq(s, HashLen(s) + 1, Len(s))))

\* chr(n) for the result n of int(): the character, ValueError when n is
\* not in range(0x110000), OverflowError when n does not fit a C int;
\* int's own ValueError when n is none
Chr(n) ==
  IF ~n.ok THEN [exc |-> "ValueError", v |-> << >>]
  ELSE IF n.over THEN [exc |-> "OverflowError", v |-> << >>]
  ELSE IF n.v < 0 \/ n.v > 1114111 THEN [exc |-> "ValueError", v |-> << >>]
  ELSE [exc |-> "none", v |-> <<n.v>>]

\* Lines 322-323 and 330: a ValueError is caught and the text left as it is;
\* nothing else is caught
ExceptValueError(r, text) ==
  IF r.exc = "ValueError" THEN [exc |-> "none", v |-> text] ELSE r

\* Lines 326-330: the named entity, the text left as it is on KeyError
NamedEntity(text, hit) ==
  IF hit = {} THEN [exc |-> "none", v |-> text]
  ELSE [exc |-> "none", v |-> <<(CHOOSE e \in hit : TRUE).cp>>]

\* fixup (lines 313-330) on the matched text: the replacement, or the
\* exception that leaves it
fixup(text) ==
  IF SubSeq(text, 1, 2) = S(<<"&", "#">>)
  THEN ExceptValueError(
         Chr(IF SubSeq(text, 1, 3) = S(<<"&", "#", "x">>)
             THEN ParseInt(SubSeq(text, 4, Len(text) - 1), 16)
             ELSE ParseInt(SubSeq(text, 3, Len(text) - 1), 10)),
         text)
  ELSE NamedEntity(text, {e \in Name2CodepointTable :
                            e.name = SubSeq(text, 2, Len(text) - 1)})

RECURSIVE UnescapeFrom(_, _)
\* The replacement f of a match is appended, or its exception ends the call
UnescapeReplaced(f, rest, done) ==
  IF f.exc # "none" THEN f ELSE UnescapeFrom(rest, done \o f.v)

\* m is the length of the match at the start of text, 0 for none
UnescapeMatch(text, m, done) ==
  IF m = 0 THEN UnescapeFrom(Tail(text), Append(done, Head(text)))
  ELSE UnescapeReplaced(fixup(SubSeq(text, 1, m)),
                        SubSeq(text, m + 1, Len(text)), done)

\* re.sub("&#?\w+;", fixup, text) on the rest of a text
UnescapeFrom(text, done) ==
  IF text = << >> THEN [exc |-> "none", v |-> done]
  ELSE UnescapeMatch(text, EntityLen(text), done)

\* unescape (lines 312-331)
unescape(text) == UnescapeFrom(text, << >>)

\* html.escape(s) of one character (quote=True)
EscapeChar(c) ==
  IF c = Ord("&") THEN S(<<"&", "a", "m", "p", ";">>)
  ELSE IF c = Ord("<") THEN S(<<"&", "l", "t", ";">>)
  ELSE IF c = Ord(">") THEN S(<<"&", "g", "t", ";">>)
  ELSE IF c = Ord("\"") THEN S(<<"&", "q", "u", "o", "t", ";">>)
  ELSE IF c = Ord("'") THEN S(<<"&", "#", "x", "2", "7", ";">>)
  ELSE <<c>>

\* html.escape(s)
HtmlEscape(s) == Concat([i \in DOMAIN s |-> EscapeChar(s[i])])

\* Lines 340-342 on what unescape returned or raised
Escaped(s) ==
  IF s.exc # "none" THEN s ELSE [exc |-> "none", v |-> Nfc(HtmlEscape(s.v))]

\* clean (lines 334-342): the escaped text, or the exception it raises
clean(string) ==
  IF string = << >> THEN [exc |-> "none", v |-> << >>]
  ELSE Escaped(unescape(Nfc(HtmlUnescape(string))))


(***************************************************************************)
(* Field (lines 233-305).  A Field object is a record: tag, the set attrs  *)
(* of the attributes __init__ gave it (a control field has data, a data    *)
(* field has indicators and subfields), the attribute values, and pos, the *)
(* private cursor __pos that __iter__ sets (-1 before the first __iter__). *)
(* subfields is the flat list code, value, code, value, ...                *)
(***************************************************************************)
ControlAttrs == {"data"}
DataAttrs == {"indicators", "subfields"}

\* The test of lines 244-247, in Field.__init__
InitIsControl(tag) ==
  \/ StrLess(tag, S(<<"0", "1", "0">>)) /\ IsDigit(tag)
  \/ tag \in ALEPH_CONTROL_FIELDS

\* A Field with no attribute but its tag
NewField(t) ==
  [tag |-> t, attrs |-> {}, data |-> << >>, indicators |-> << >>,
   subfields |-> << >>, pos |-> -1]

\* Lines 243-250 for the normalised tag t
FieldOf(t, indicators, subfields, data) ==
  IF InitIsControl(t)
  THEN [exc |-> "none",
        v |-> [NewField(t) EXCEPT !.attrs = ControlAttrs, !.data = data]]
  ELSE IF Len(indicators) # 2
  THEN [exc |-> "ValueError", v |-> NewField(t)]
  ELSE [exc |-> "none",
        v |-> [NewField(t) EXCEPT !.attrs = DataAttrs,
                                  !.indicators = indicators,
                                  !.subfields = subfields]]

\* Field.__init__ (lines 235-250): the Field, or ValueError when a data
\* field is not given exactly two indicators
FieldInit(tag, indicators, subfields, data) ==
  FieldOf(PadTag(tag), indicators, subfields, data)

\* Field.is_control_field (lines 286-289)
is_control_field(f) ==
  IF StrLess(f.tag, S(<<"0", "1", "0">>)) /\ IsDigit(f.tag) THEN TRUE
  ELSE IF f.tag \in ALEPH_CONTROL_FIELDS THEN TRUE
  ELSE FALSE

\* What one whole loop "for subfield in self" yields: __iter__ (lines
\* 252-254) followed by __next__ (lines 265-272) until StopIteration
FieldItems(f) ==
  IF "subfields" \notin f.attrs THEN << >>
  ELSE [k \in 1..(Len(f.subfields) \div 2) |->
          <<f.subfields[2 * k - 1], f.subfields[2 * k]>>]

\* The cursor after __iter__ and n calls of __next__ that yielded
PosAfter(f, n) == IF "subfields" \notin f.attrs THEN 0 ELSE 2 * n

\* The Field after one whole loop "for subfield in self"
Iterated(f) == [f EXCEPT !.pos = PosAfter(f, Len(FieldItems(f)))]

\* Field.__iter__ (lines 252-254): the cursor goes back to 0, and the
\* iterator is the Field itself
FieldIter(f) == [f EXCEPT !.pos = 0]

\* Field.__next__ (lines 265-272): StopIteration (stop), or the next
\* (code, value) pair and the Field with its cursor moved on
FieldNext(f) ==
  IF "subfields" \notin f.attrs \/ f.pos >= Len(f.subfields)
  THEN [stop |-> TRUE, item |-> << >>, f |-> f]
  ELSE [stop |-> FALSE,
        item |-> <<f.subfields[f.pos + 1], f.subfields[f.pos + 2]>>,
        f |-> [f EXCEPT !.pos = @ + 2]]

\* The values of the items whose code is in codes (of all when codes is
\* empty)
ValuesOf(items, codes) ==
  Concat([k \in DOMAIN items |->
            IF codes = {} \/ items[k][1] \in codes
            THEN <<items[k][2]>> ELSE << >>])

\* Field.get_subfields(*codes) (lines 274-280); codes is a set of codes
get_subfields(f, codes) == ValuesOf(FieldItems(f), codes)

\* The loop of lines 295-296 over the items
SubfieldsMarc(items) ==
  Concat([k \in DOMAIN items |->
            <<SUBFIELD_INDICATOR>> \o items[k][1] \o items[k][2]])

\* Field.as_marc as it would be without the field terminator: a fault the
\* round trip (RoundTrip) has to expose
FieldAsMarcUnterminated(f) ==
  IF is_control_field(f) THEN Utf8Encode(f.data)
  ELSE Utf8Encode(f.indicators[1] \o f.indicators[2]
                    \o SubfieldsMarc(FieldItems(f)))

\* Field.as_marc (lines 291-297): the bytes, or UnicodeEncodeError
FieldAsMarc(f) ==
  IF is_control_field(f)
  THEN Utf8Encode(f.data \o <<END_OF_FIELD>>)
  ELSE Utf8Encode(f.indicators[1] \o f.indicators[2]
                    \o SubfieldsMarc(FieldItems(f)) \o <<END_OF_FIELD>>)

\* The Field after as_marc: a data field has been iterated
FieldAfterAsMarc(f) == IF is_control_field(f) THEN f ELSE Iterated(f)

(***************************************************************************)
(* XML text is a sequence of pieces: the literal markup of the source's    *)
(* format strings (lit) and the text put in their {} (txt, code points).   *)
(***************************************************************************)
Lit(m) == [lit |-> m, txt |-> << >>]
Txt(t) == [lit |-> "", txt |-> t]

\* One subfield element (line 304)
SubfieldXml(item, value) ==
  << Lit("\t\t\t<marc:subfield code=\""), Txt(item[1]), Lit("\">"),
     Txt(value), Lit("</marc:subfield>\n") >>

RECURSIVE SubfieldsXml(_, _, _)
\* The k-th item, c being clean of its value
SubfieldsXmlNext(items, k, c, xml) ==
  IF c.exc # "none" THEN [exc |-> c.exc, v |-> << >>, n |-> k]
  ELSE SubfieldsXml(items, k + 1, xml \o SubfieldXml(items[k], c.v))

\* The loop of lines 303-304 from the k-th item on: the pieces, the
\* exception clean raised, and how many items __next__ had yielded by then
SubfieldsXml(items, k, xml) ==
  IF k > Len(items) THEN [exc |-> "none", v |-> xml, n |-> Len(items)]
  ELSE SubfieldsXmlNext(items, k, clean(items[k][2]), xml)

\* Line 301, c being clean(self.data)
ControlFieldXml(f, c) ==
  [exc |-> c.exc,
   v |-> << Lit("\t\t<marc:controlfield tag=\""), Txt(f.tag), Lit("\">"),
            Txt(c.v), Lit("</marc:controlfield>\n") >>,
   f |-> f]

\* Lines 302-305, subs being what the loop made
DataFieldXml(f, subs) ==
  [exc |-> subs.exc,
   v |-> subs.v \o << Lit("\t\t</marc:datafield>\n") >>,
   f |-> [f EXCEPT !.pos = PosAfter(f, subs.n)]]

\* Field.as_xml (lines 299-305): the pieces or the exception clean raised,
\* and the Field afterwards
FieldAsXml(f) ==
  IF is_control_field(f) THEN ControlFieldXml(f, clean(f.data))
  ELSE DataFieldXml(f,
         SubfieldsXml(FieldItems(f), 1,
                      << Lit("\t\t<marc:datafield tag=\""), Txt(f.tag),
                         Lit("\" ind1=\""), Txt(f.indicators[1]),
                         Lit("\" ind2=\""), Txt(f.indicators[2]),
                         Lit("\">\n") >>))


(***************************************************************************)
(* Record (lines 103-230).  A Record object is a record: leader, fields    *)
(* and pos (the attribute line 108 sets).                                  *)
(***************************************************************************)
\* Line 106 as it would be with leader[12:] for leader[12:20]: a fault the
\* leader property (LeaderAsBuilt) has to expose
InitLeaderUnbounded(leader) ==
  Slice(leader, 0, 10) \o S(<<"2", "2">>) \o SliceFrom(leader, 12)
    \o S(<<"4", "5", "0", "0">>)

\* The leader Record.__init__ sets (line 106)
InitLeader(leader) ==
  Slice(leader, 0, 10) \o S(<<"2", "2">>) \o Slice(leader, 12, 20)
    \o S(<<"4", "5", "0", "0">>)

RECURSIVE SplitFrom(_, _, _)
\* n is the number of bytes of bs before its first separator (all of them
\* when it has none)
SplitNext(bs, sep, n, parts) ==
  IF n = Len(bs) THEN Append(parts, bs)
  ELSE SplitFrom(SubSeq(bs, n + 2, Len(bs)), sep, Append(parts, SubSeq(bs, 1, n)))

SplitFrom(bs, sep, parts) == SplitNext(bs, sep, RunNotIn(bs, {sep}), parts)

\* bytes.split(sep) for a separator of one byte
Split(bs, sep) == SplitFrom(bs, sep, << >>)

RECURSIVE DecodeSubfields(_, _)
\* Lines 187-193 as they would be if a code were kept once: a fault the
\* subfield order (SubfieldOrder) has to expose
DecodeSubfieldOnce(segs, code, data, subfields) ==
  IF ~code.ok \/ ~data.ok THEN DecodeSubfields(Tail(segs), subfields)
  ELSE IF \E k \in 1..(Len(subfields) \div 2) : subfields[2 * k - 1] = code.v
    THEN DecodeSubfields(Tail(segs), subfields)
  ELSE DecodeSubfields(Tail(segs), subfields \o <<code.v, data.v>>)

\* Lines 187-193 for one segment: code and data are what the two decode
\* calls of line 188 gave; when either raised, the segment is skipped
DecodeSubfield(segs, code, data, subfields) ==
  IF ~code.ok \/ ~data.ok THEN DecodeSubfields(Tail(segs), subfields)
  ELSE DecodeSubfields(Tail(segs), subfields \o <<code.v, data.v>>)

\* The loop of lines 185-193 over subs[1:]: the flat subfield list.  An
\* empty segment is skipped.
DecodeSubfields(segs, subfields) ==
  IF segs = << >> THEN subfields
  ELSE IF Len(Head(segs)) = 0 THEN DecodeSubfields(Tail(segs), subfields)
  ELSE DecodeSubfield(segs, AsciiDecode(Slice(Head(segs), 0, 1)),
                      Utf8Decode(SliceFrom(Head(segs), 1)), subfields)

\* The test of lines 171-174 as it would be without line 173: a fault the
\* classification (Classification) has to expose
DecoderIsControlDigitsOnly(entry_tag) ==
  StrLess(entry_tag, S(<<"0", "1", "0">>)) /\ IsDigit(entry_tag)

\* The test of lines 171-174, in Record.decode_marc
DecoderIsControl(entry_tag) ==
  \/ StrLess(entry_tag, S(<<"0", "1", "0">>)) /\ IsDigit(entry_tag)
  \/ entry_tag \in ALEPH_CONTROL_FIELDS

\* What a decode call that raised leaves: no Field
DecodeError == [exc |-> "UnicodeDecodeError", v |-> NewField(<< >>)]

\* Lines 172 and 174, d being entry_data.decode('utf-8')
DecodeControl(entry_tag, d) ==
  IF ~d.ok THEN DecodeError ELSE FieldInit(entry_tag, << >>, << >>, d.v)

\* Lines 182-198, ind being subs[0].decode('ascii') and padded that
\* followed by two spaces
DecodeIndicators(entry_tag, subs, ind, padded) ==
  IF ~ind.ok THEN DecodeError
  ELSE FieldInit(entry_tag, << <<padded[1]>>, <<padded[2]>> >>,
                 DecodeSubfields(Tail(subs), << >>), << >>)

\* Lines 177-198, subs being the split of line 178
DecodeData(entry_tag, subs) ==
  DecodeIndicators(entry_tag, subs, AsciiDecode(subs[1]),
                   subs[1] \o S(<<" ", " ">>))

\* Lines 170-198: the Field of one directory entry, or the exception
DecodeField(entry_tag, entry_data) ==
  IF DecoderIsControl(entry_tag)
  THEN DecodeControl(entry_tag, Utf8Decode(entry_data))
  ELSE DecodeData(entry_tag, Split(entry_data, SUBFIELD_INDICATOR))

RECURSIVE DecodeEntries(_, _, _, _, _)
\* Lines 199-200: the field is added, or its exception ends decoding
AddField(marc, base_address, directory, field_count, fields, field) ==
  IF field.exc # "none" THEN [exc |-> field.exc, v |-> fields]
  ELSE DecodeEntries(marc, base_address, directory, field_count + 1,
                     Append(fields, field.v))

\* Lines 165-198 for one entry, entry_length and entry_offset being what
\* int gave
DecodeEntry(marc, base_address, directory, field_count, fields, entry, entry_length, entry_offset) ==
  IF ~entry_length.ok \/ ~entry_offset.ok
  THEN [exc |-> "ValueError", v |-> fields]
  ELSE AddField(marc, base_address, directory, field_count, fields,
         DecodeField(Slice(entry, 0, 3),
                     Slice(marc, base_address + entry_offset.v,
                           base_address + entry_offset.v + entry_length.v - 1)))

\* Lines 162-167 for the entry
EntryOf(marc, base_address, directory, field_count, fields, entry) ==
  DecodeEntry(marc, base_address, directory, field_count, fields, entry,
              ParseInt(Slice(entry, 3, 7), 10), ParseInt(Slice(entry, 7, 12), 10))

\* The loop of lines 161-200 from field_count on: the fields, or the
\* exception that ends decoding
DecodeEntries(marc, base_address, directory, field_count, fields) ==
  IF field_count * DIRECTORY_ENTRY_LENGTH >= Len(directory)
  THEN [exc |-> "none", v |-> fields]
  ELSE EntryOf(marc, base_address, directory, field_count, fields,
               Slice(directory, field_count * DIRECTORY_ENTRY_LENGTH,
                     field_count * DIRECTORY_ENTRY_LENGTH
                       + DIRECTORY_ENTRY_LENGTH))

\* What decode_marc leaves: the exception, the leader, the fields
Decoded(e, leader, fields) == [exc |-> e, leader |-> leader, fields |-> fields]

\* Line 202, decoded being what the loop gave
DecodeEnd(leader, decoded) ==
  IF decoded.exc # "none" THEN Decoded(decoded.exc, leader, decoded.v)
  ELSE IF Len(decoded.v) = 0 THEN Decoded("FieldsError", leader, << >>)
  ELSE Decoded("none", leader, decoded.v)

\* Lines 152-202, directory being what decode('ascii') gave
DecodeDirectory(leader, marc, base_address, directory) ==
  IF ~directory.ok THEN Decoded("UnicodeDecodeError", leader, << >>)
  ELSE IF Len(directory.v) % DIRECTORY_ENTRY_LENGTH # 0
    THEN Decoded("DirectoryError", leader, << >>)
  ELSE DecodeEnd(leader, DecodeEntries(marc, base_address, directory.v, 0, << >>))

\* Lines 146-202, base being what int(marc[12:17]) gave
DecodeBase(leader, marc, base) ==
  IF ~base.ok THEN Decoded("ValueError", leader, << >>)
  ELSE IF base.v <= 0 THEN Decoded("BaseAddressError", leader, << >>)
  ELSE IF base.v >= Len(marc)
    THEN Decoded("BaseAddressLengthError", leader, << >>)
  ELSE DecodeDirectory(leader, marc, base.v,
                       AsciiDecode(Slice(marc, LEADER_LENGTH, base.v - 1)))

\* Lines 143-202 for the leader lines 139-142 left
DecodeLeader(leader, marc) ==
  IF Len(leader) # LEADER_LENGTH THEN Decoded("LeaderError", leader, << >>)
  ELSE DecodeBase(leader, marc, ParseInt(Slice(marc, 12, 17), 10))

\* Lines 139-142: the decoded leader, or the one the Record had when
\* decode raised (the except clause prints and goes on)
LeaderOf(leader, head) == IF head.ok THEN head.v ELSE leader

\* Record.decode_marc (lines 137-202) on a Record whose leader is leader and
\* which has no fields: the leader and fields it leaves, and the exception
\* it raises
decode_marc(leader, marc) ==
  DecodeLeader(LeaderOf(leader, AsciiDecode(Slice(marc, 0, LEADER_LENGTH))),
               marc)

\* The Record decode_marc left, and its exception
RecordOf(d) ==
  [exc |-> d.exc, v |-> [leader |-> d.leader, fields |-> d.fields, pos |-> 0]]

\* Record(data, leader) (lines 105-109): the Record, or the exception the
\* constructor raises (and then the caller has no Record)
RecordInit(data, leader) ==
  IF Len(data) > 0 THEN RecordOf(decode_marc(InitLeader(leader), data))
  ELSE RecordOf(Decoded("none", InitLeader(leader), << >>))

\* Record.__iter__ (lines 120-122): the private cursor of the Record (not
\* the attribute pos of line 108) is set to 0, and the iterator is the
\* Record itself
RecordIter(r) == 0

\* Record.__next__ (lines 124-127) at the cursor: StopIteration (stop), or
\* the next Field and the cursor moved on
RecordNext(r, cursor) ==
  IF cursor >= Len(r.fields)
  THEN [stop |-> TRUE, item |-> << >>, cursor |-> cursor]
  ELSE [stop |-> FALSE, item |-> r.fields[cursor + 1], cursor |-> cursor + 1]

\* The directory's tag of a field (lines 211-212)
DirectoryTag(tag) ==
  IF IsDigit(tag) THEN FormatInt(ParseInt(tag, 10).v, 3) ELSE PadTag(tag)

RECURSIVE EncodeFields(_, _, _, _, _)
\* Lines 209-214 for the k-th field, field_data and tag being what the
\* encode calls gave
EncodeField(fs, k, offset, directory, fields, field_data, tag) ==
  IF ~field_data.ok \/ ~tag.ok
  THEN [exc |-> "UnicodeEncodeError", directory |-> directory,
        fields |-> fields]
  ELSE EncodeFields(fs, k + 1, offset + Len(field_data.v),
                    directory \o tag.v \o FormatInt(Len(field_data.v), 4)
                      \o FormatInt(offset, 5),
                    fields \o field_data.v)

\* The loop of lines 208-214 from the k-th field on: the directory and the
\* field data, or the exception
EncodeFields(fs, k, offset, directory, fields) ==
  IF k > Len(fs) THEN [exc |-> "none", directory |-> directory, fields |-> fields]
  ELSE EncodeField(fs, k, offset, directory, fields, FieldAsMarc(fs[k]),
                   Utf8Encode(DirectoryTag(fs[k].tag)))

\* Line 222, leader being what encode gave
Assemble(leader, directory, fields) ==
  IF ~leader.ok THEN [exc |-> "UnicodeEncodeError", v |-> << >>]
  ELSE [exc |-> "none", v |-> leader.v \o directory \o fields]

\* Lines 218-221
EncodeLeader(r, directory, fields) ==
  Assemble(Utf8Encode(FormatInt(LEADER_LENGTH + Len(directory) + Len(fields), 5)
                        \o Slice(r.leader, 5, 12)
                        \o FormatInt(LEADER_LENGTH + Len(directory), 5)
                        \o SliceFrom(r.leader, 17)),
           directory, fields)

\* Lines 216-222, enc being what the loop gave
EncodeEnd(r, enc) ==
  IF enc.exc # "none" THEN [exc |-> enc.exc, v |-> << >>]
  ELSE EncodeLeader(r, enc.directory \o <<END_OF_FIELD>>,
                    enc.fields \o <<END_OF_RECORD>>)

\* Record.as_marc (lines 204-222): the bytes, or the exception
RecordAsMarc(r) == EncodeEnd(r, EncodeFields(r.fields, 1, 0, << >>, << >>))

\* The Record after as_marc: every data field has been iterated
RecordAfterAsMarc(r) ==
  [r EXCEPT !.fields = [k \in DOMAIN r.fields |-> FieldAfterAsMarc(r.fields[k])]]

RECURSIVE FieldsXml(_, _, _)
\* Line 229 for the k-th field, x being what its as_xml gave
FieldsXmlNext(fs, k, xml, x) ==
  IF x.exc # "none"
  THEN [exc |-> x.exc, v |-> << >>, fields |-> [fs EXCEPT ![k] = x.f]]
  ELSE FieldsXml([fs EXCEPT ![k] = x.f], k + 1, xml \o x.v)

\* The loop of lines 228-229 from the k-th field on: the pieces or the
\* exception, and the fields afterwards
FieldsXml(fs, k, xml) ==
  IF k > Len(fs) THEN [exc |-> "none", v |-> xml, fields |-> fs]
  ELSE FieldsXmlNext(fs, k, xml, FieldAsXml(fs[k]))

\* Line 230, body being what lines 226-229 gave
RecordXml(r, body) ==
  [exc |-> body.exc,
   v |-> IF body.exc # "none" THEN << >>
         ELSE body.v \o << Lit("\t</marc:record>\n") >>,
   r |-> [r EXCEPT !.fields = body.fields]]

\* Record.as_xml (lines 225-230)
RecordAsXml(r) ==
  RecordXml(r, FieldsXml(r.fields, 1,
                         << Lit("\t<marc:record>\n"), Lit("\t\t<marc:leader>"),
                            Txt(r.leader), Lit("</marc:leader>\n") >>))


(***************************************************************************)
(* The buffers handed to Record(data): what MARCReader.__next__ (lines     *)
(* 96-100) reads from a file.  A buffer is laid out from a description     *)
(* (leader, fields, damage): the leader, one directory entry per field,    *)
(* the directory terminator, the field data and the record terminator;     *)
(* then it is damaged the way a broken file is.  The description of a      *)
(* field says what its bytes hold: for each subfield segment, its bytes    *)
(* and the code and text they spell when they are valid.                   *)
(***************************************************************************)
MaxFields == 2

Seg(raw, valid, code, text) ==
  [raw |-> raw, valid |-> valid, code |-> code, text |-> text]

SegV1 == Seg(S(<<"a", "V", "1">>), TRUE, S(<<"a">>), S(<<"V", "1">>))
SegV2 == Seg(S(<<"a", "V", "2">>), TRUE, S(<<"a">>), S(<<"V", "2">>))
SegV3 == Seg(S(<<"b", "V", "3">>), TRUE, S(<<"b">>), S(<<"V", "3">>))
\* b'a&<'
SegMarkup == Seg(S(<<"a", "&", "<">>), TRUE, S(<<"a">>), S(<<"&", "<">>))
\* b'b\xc3\xa9': e-acute in UTF-8
SegAccent == Seg(<<98, 195, 169>>, TRUE, S(<<"b">>), <<233>>)
\* b'a\xff': a value that is not UTF-8
SegBadValue == Seg(<<97, 255>>, FALSE, << >>, << >>)
\* b'\xffX': a code that is not ASCII
SegBadCode == Seg(<<255, 88>>, FALSE, << >>, << >>)
\* two subfield indicators in a row
SegEmpty == Seg(<< >>, FALSE, << >>, << >>)

ControlDesc(tag, payload, valid, text) ==
  [tag |-> tag, control |-> TRUE, payload |-> payload, valid |-> valid,
   text |-> text, ind |-> << >>, segs |-> << >>]

DataDesc(tag, ind, segs) ==
  [tag |-> tag, control |-> FALSE, payload |-> << >>, valid |-> TRUE,
   text |-> << >>, ind |-> ind, segs |-> segs]

Ctl001 == ControlDesc(S(<<"0", "0", "1">>), S(<<"c", "&">>), TRUE, S(<<"c", "&">>))
Ctl008Bad == ControlDesc(S(<<"0", "0", "8">>), <<255>>, FALSE, << >>)
CtlDB == ControlDesc(S(<<"D", "B", " ">>), <<195, 169>>, TRUE, <<233>>)
Dat245 == DataDesc(S(<<"2", "4", "5">>), S(<<"1", "0">>), <<SegV1, SegV2, SegV3>>)
Dat650 == DataDesc(S(<<"6", "5", "0">>), S(<<"7">>), <<SegEmpty, SegMarkup>>)
Dat010 == DataDesc(S(<<"0", "1", "0">>), S(<<"1", "2", "3">>),
                   <<SegBadValue, SegAccent, SegBadCode, SegV1>>)
Dat100BadInd == DataDesc(S(<<"1", "0", "0">>), <<195>>, <<SegV1>>)

FieldPool == {Ctl001, Ctl008Bad, CtlDB, Dat245, Dat650, Dat010, Dat100BadInd}

\* The bytes of a field, with its terminator
FieldBytes(fd) ==
  IF fd.control THEN fd.payload \o <<END_OF_FIELD>>
  ELSE fd.ind
         \o Concat([k \in DOMAIN fd.segs |->
                      <<SUBFIELD_INDICATOR>> \o fd.segs[k].raw])
         \o <<END_OF_FIELD>>

RECURSIVE Layout(_, _, _, _)
\* The directory entry and the data of the k-th field, whose bytes are fb
LayoutField(fds, k, directory, data, fb) ==
  Layout(fds, k + 1,
         directory \o fds[k].tag \o FormatInt(Len(fb), 4)
           \o FormatInt(Len(data), 5),
         data \o fb)

\* The directory and the field data of the fields from the k-th on
Layout(fds, k, directory, data) ==
  IF k > Len(fds) THEN [directory |-> directory, data |-> data]
  ELSE LayoutField(fds, k, directory, data, FieldBytes(fds[k]))

\* The buffer of a leader, a directory and field data, both terminated
Laid(leader, directory, data) ==
  FormatInt(LEADER_LENGTH + Len(directory) + Len(data), 5)
    \o Slice(leader, 5, 12) \o FormatInt(LEADER_LENGTH + Len(directory), 5)
    \o SliceFrom(leader, 17) \o directory \o data

Terminated(leader, lay) ==
  Laid(leader, lay.directory \o <<END_OF_FIELD>>, lay.data \o <<END_OF_RECORD>>)

\* The buffer of a leader and fields, its record length and base address
\* written into the leader
WellFormed(leader, fds) == Terminated(leader, Layout(fds, 1, << >>, << >>))

LeaderPlain ==
  S(<<"0", "0", "0", "0", "0", "n", "a", "m", " ", "a", "2", "2", "0", "0",
      "0", "0", "0", " ", "a", " ", "4", "5", "0", "0">>)
\* a leader that is ASCII but holds markup characters and does not end 4500
LeaderOdd ==
  S(<<"0", "0", "0", "0", "0", "n", "<", "&", " ", "a", "2", "2", "0", "0",
      "0", "0", "0", " ", "a", " ", "4", "5", "1", "0">>)
\* a leader with a byte that is not ASCII
LeaderNotAscii == [LeaderPlain EXCEPT ![6] = 255]

Leaders == {LeaderPlain, LeaderOdd, LeaderNotAscii}

Damages ==
  {"none", "base zero", "base negative", "base beyond", "base not a number",
   "directory shifted", "directory not ascii", "truncated", "no directory"}

\* b with its bytes 12-16 (the base address) replaced
WithBase(b, digits) == Slice(b, 0, 12) \o digits \o SliceFrom(b, 17)

\* b with one byte put in front of its directory and the base address moved
\* up by one
WithDirectoryByte(b, byte) ==
  WithBase(Slice(b, 0, LEADER_LENGTH) \o <<byte>> \o SliceFrom(b, LEADER_LENGTH),
           FormatInt(ParseInt(Slice(b, 12, 17), 10).v + 1, 5))

Damaged(b, damage) ==
  CASE damage = "none" -> b
    [] damage = "base zero" -> WithBase(b, S(<<"0", "0", "0", "0", "0">>))
    [] damage = "base negative" -> WithBase(b, S(<<"-", "0", "0", "0", "1">>))
    [] damage = "base beyond" -> WithBase(b, S(<<"9", "9", "9", "9", "9">>))
    [] damage = "base not a number" -> WithBase(b, S(<<"0", "0", "0", "a", "0">>))
    [] damage = "directory shifted" -> WithDirectoryByte(b, Ord("x"))
    [] damage = "directory not ascii" -> WithDirectoryByte(b, 255)
    [] damage = "truncated" -> Slice(b, 0, 20)
    [] damage = "no directory" -> WithBase(b, S(<<"0", "0", "0", "2", "5">>))

RECURSIVE SeqsUpTo(_, _)
\* The sequences of 1..n elements of set
SeqsUpTo(set, n) ==
  IF n = 0 THEN {}
  ELSE LET shorter == SeqsUpTo(set, n - 1)
       IN  {<<x>> : x \in set} \cup shorter
             \cup {Append(q, x) : q \in shorter, x \in set}

Inputs ==
  [leader : Leaders, fields : SeqsUpTo(FieldPool, MaxFields), damage : Damages]

Buffer(in) == Damaged(WellFormed(in.leader, in.fields), in.damage)

\* The default of Record's leader parameter: ' ' * LEADER_LENGTH
DefaultLeader == [i \in 1..LEADER_LENGTH |-> Ord(" ")]

\* Leader arguments of Record(leader=...): the default, and texts of 0, 3,
\* 19, 20 and 30 characters
LeaderArgs ==
  {DefaultLeader} \cup {[i \in 1..n |-> Ord("x")] : n \in {0, 3, 19, 20, 30}}


(***************************************************************************)
(* The texts handed to clean: up to MaxTokens pieces of entity syntax.     *)
(***************************************************************************)
MaxTokens == 3

Tokens ==
  { S(<<"&">>), S(<<"a", "m", "p", ";">>), S(<<"&", "a", "m", "p", ";">>),
    S(<<"l", "t", ";">>), S(<<"#", "6", "0", ";">>),
    S(<<"#", "x", "2", "6", ";">>),
    S(<<"#", "9", "9", "9", "9", "9", "9", "9", "9", "9", "9", "9", ";">>),
    S(<<"#", "1", "1", "1", "4", "1", "1", "2", ";">>),
    S(<<"<">>), S(<<">">>), S(<<";">>), S(<<"g">>), <<824>> }

Texts == {<< >>} \cup {Concat(q) : q \in SeqsUpTo(Tokens, MaxTokens)}

(***************************************************************************)
(* State.                                                                  *)
(*   marc, leaderArg  the arguments of Record(data, leader)                *)
(*   input            the description marc was laid out from               *)
(*   pc               where the caller is: "new" before the constructor,   *)
(*                    "failed" when it raised, "built" when it returned,   *)
(*                    then "encoded" (as_marc), "redecoded" (Record of     *)
(*                    those bytes), "projected" (as_xml), "looked"         *)
(*                    (get_subfields)                                      *)
(*   rec, exc         the Record the constructor returned (a sequence of   *)
(*                    0 or 1 Records: none when it raised) and the         *)
(*                    exception                                            *)
(*   out              what rec.as_marc() returned or raised                *)
(*   rec2, exc2       Record(out)                                          *)
(*   xml              what rec.as_xml() returned or raised                 *)
(*   lookup           a call of get_subfields and what it returned         *)
(*   text, once, twice, cpc   the escaper: a text, clean(text),            *)
(*                    clean(clean(text)), and how far the caller is        *)
(*   target           what a caller traverses: "field", "record" or "none" *)
(*   tfield           the Field traversed                                  *)
(*   trecord, tcursor the Record traversed and its private cursor          *)
(*   outer            the loop "for x in target": "new" before __iter__,   *)
(*                    "running", "done" once __next__ raised StopIteration *)
(*   yielded          what __next__ has returned to that loop              *)
(*   inner            a second loop over the same object, started in the   *)
(*                    body of the first: "idle" or "running"               *)
(***************************************************************************)
VARIABLES marc, leaderArg, input, pc, rec, exc, out, rec2, exc2, xml, lookup,
          text, once, twice, cpc,
          target, tfield, trecord, tcursor, outer, yielded, inner

codecVars == <<marc, leaderArg, input, pc, rec, exc, out, rec2, exc2, xml, lookup>>
cleanVars == <<text, once, twice, cpc>>
iterVars == <<target, tfield, trecord, tcursor, outer, yielded, inner>>
vars == <<codecVars, cleanVars, iterVars>>

NoResult == [exc |-> "none", v |-> << >>]
NoLookup == [field |-> 0, code |-> << >>, values |-> << >>]
NoInput == [leader |-> << >>, fields |-> << >>, damage |-> "no data"]

CodecIdle ==
  /\ pc = "new"
  /\ rec = << >>
  /\ exc = "none"
  /\ out = NoResult
  /\ rec2 = << >>
  /\ exc2 = "none"
  /\ xml = NoResult
  /\ lookup = NoLookup

CleanIdle ==
  /\ once = NoResult
  /\ twice = NoResult
  /\ cpc = "new"

\* A Record with no fields, as Record() makes it
EmptyRecord == RecordInit(<< >>, DefaultLeader).v

IterIdle ==
  /\ tfield = NewField(<< >>)
  /\ trecord = EmptyRecord
  /\ tcursor = 0
  /\ outer = "new"
  /\ yielded = << >>
  /\ inner = "idle"

NoTraversal == target = "none" /\ IterIdle

\* Record(data): a buffer read from a file; Record(leader=...): an empty
\* Record; Record(data, leader): both, for the one-field buffers
Init ==
  /\ \/ /\ input \in Inputs
        /\ marc = Buffer(input)
        /\ leaderArg = DefaultLeader
     \/ /\ input = NoInput
        /\ marc = << >>
        /\ leaderArg \in LeaderArgs
     \/ /\ input \in [leader : Leaders, fields : {<<fd>> : fd \in FieldPool},
                      damage : {"none"}]
        /\ marc = Buffer(input)
        /\ leaderArg \in LeaderArgs \ {DefaultLeader}
  /\ CodecIdle
  /\ text = << >>
  /\ CleanIdle
  /\ NoTraversal

\* r = Record(marc, leader=leaderArg)
Construct ==
  /\ pc = "new"
  /\ \E r \in {RecordInit(marc, leaderArg)} :
       /\ exc' = r.exc
       /\ rec' = IF r.exc = "none" THEN <<r.v>> ELSE << >>
       /\ pc' = IF r.exc = "none" THEN "built" ELSE "failed"
  /\ UNCHANGED <<marc, leaderArg, input, out, rec2, exc2, xml, lookup, cleanVars, iterVars>>

\* out = r.as_marc()
AsMarc ==
  /\ pc = "built"
  /\ out' = RecordAsMarc(rec[1])
  /\ rec' = <<RecordAfterAsMarc(rec[1])>>
  /\ pc' = "encoded"
  /\ UNCHANGED <<marc, leaderArg, input, exc, rec2, exc2, xml, lookup, cleanVars, iterVars>>

\* r2 = Record(out)
Redecode ==
  /\ pc = "encoded"
  /\ out.exc = "none"
  /\ \E r \in {RecordInit(out.v, DefaultLeader)} :
       /\ exc2' = r.exc
       /\ rec2' = IF r.exc = "none" THEN <<r.v>> ELSE << >>
  /\ pc' = "redecoded"
  /\ UNCHANGED <<marc, leaderArg, input, rec, exc, out, xml, lookup, cleanVars, iterVars>>

\* xml = r.as_xml()
AsXml ==
  /\ pc = "built"
  /\ \E x \in {RecordAsXml(rec[1])} :
       /\ xml' = [exc |-> x.exc, v |-> x.v]
       /\ rec' = <<x.r>>
  /\ pc' = "projected"
  /\ UNCHANGED <<marc, leaderArg, input, exc, out, rec2, exc2, lookup, cleanVars, iterVars>>

\* The subfield codes a caller asks for
Codes == {S(<<"a">>), S(<<"b">>), S(<<"6">>)}

\* values = r.fields[k].get_subfields(code)
GetSubfields ==
  /\ pc = "built"
  /\ \E k \in DOMAIN rec[1].fields, code \in Codes :
       /\ lookup' = [field |-> k, code |-> code,
                     values |-> get_subfields(rec[1].fields[k], {code})]
       /\ rec' = <<[rec[1] EXCEPT !.fields[k] = Iterated(@)]>>
  /\ pc' = "looked"
  /\ UNCHANGED <<marc, leaderArg, input, exc, out, rec2, exc2, xml, cleanVars, iterVars>>

Next == Construct \/ AsMarc \/ Redecode \/ AsXml \/ GetSubfields

Spec == Init /\ [][Next]_vars

(***************************************************************************)
(* The classification of tags: the same operations, from the one-field     *)
(* buffers of every tag over TagChars (and the tags 245 and 880).          *)
(***************************************************************************)
TagChars ==
  {Ord(" "), Ord("0"), Ord("1"), Ord("8"), Ord("9"), Ord("B"), Ord("D"),
   Ord("S"), Ord("Y")}

Tags ==
  {<<a, b, c>> : a \in TagChars, b \in TagChars, c \in TagChars}
    \cup {S(<<"2", "4", "5">>), S(<<"8", "8", "0">>)}

InitTag ==
  /\ \E t \in Tags :
       input = [leader |-> LeaderPlain, damage |-> "none",
                fields |-> <<DataDesc(t, S(<<"1", "0">>), <<SegV1>>)>>]
  /\ marc = Buffer(input)
  /\ leaderArg = DefaultLeader
  /\ CodecIdle
  /\ text = << >>
  /\ CleanIdle
  /\ NoTraversal

SpecTag == InitTag /\ [][Next]_vars

(***************************************************************************)
(* The escaper on its own.                                                 *)
(***************************************************************************)
InitClean ==
  /\ input = NoInput
  /\ marc = << >>
  /\ leaderArg = DefaultLeader
  /\ CodecIdle
  /\ text \in Texts
  /\ CleanIdle
  /\ NoTraversal

\* once = clean(text)
CleanOnce ==
  /\ cpc = "new"
  /\ once' = clean(text)
  /\ cpc' = "once"
  /\ UNCHANGED <<codecVars, iterVars, text, twice>>

\* twice = clean(once)
CleanTwice ==
  /\ cpc = "once"
  /\ once.exc = "none"
  /\ twice' = clean(once.v)
  /\ cpc' = "twice"
  /\ UNCHANGED <<codecVars, iterVars, text, once>>

NextClean == CleanOnce \/ CleanTwice

SpecClean == InitClean /\ [][NextClean]_vars

(***************************************************************************)
(* Traversals: a loop "for x in target" over a Field or a Record, and what *)
(* its body does with the same object: a second loop, left at its end or   *)
(* by break, or a lookup of the Field (get_subfields, f[code], code in f), *)
(* which is one whole loop over it.  Both loops use the one cursor the     *)
(* object holds.                                                           *)
(***************************************************************************)
\* No loop is followed beyond this many elements
MaxYield == 4

\* The fields a decoded Record is traversed with
GoodPool == {Ctl001, Dat245, Dat650, Dat010}

TraversedRecords ==
  {EmptyRecord}
    \cup {RecordInit(Buffer([leader |-> LeaderPlain, fields |-> fds,
                             damage |-> "none"]), DefaultLeader).v :
            fds \in SeqsUpTo(GoodPool, MaxFields)}

TraversedFields ==
  UNION {{r.fields[k] : k \in DOMAIN r.fields} : r \in TraversedRecords}

InitIter ==
  /\ input = NoInput
  /\ marc = << >>
  /\ leaderArg = DefaultLeader
  /\ CodecIdle
  /\ text = << >>
  /\ CleanIdle
  /\ \/ /\ target = "field"
        /\ tfield \in TraversedFields
        /\ trecord = EmptyRecord
     \/ /\ target = "record"
        /\ trecord \in TraversedRecords
        /\ tfield = NewField(<< >>)
  /\ tcursor = 0
  /\ outer = "new"
  /\ yielded = << >>
  /\ inner = "idle"

\* What __next__ of a Field gave, with the Record's cursor as it is
FieldStep(n) ==
  [stop |-> n.stop, item |-> n.item, f |-> n.f, cursor |-> tcursor]

\* What __next__ of a Record gave, with the Field as it is
RecordStep(n) ==
  [stop |-> n.stop, item |-> n.item, f |-> tfield, cursor |-> n.cursor]

\* next(target)
NextOf ==
  IF target = "field" THEN FieldStep(FieldNext(tfield))
  ELSE RecordStep(RecordNext(trecord, tcursor))

\* iter(target): the cursor of the object goes back to 0
Rewound ==
  /\ tfield' = IF target = "field" THEN FieldIter(tfield) ELSE tfield
  /\ tcursor' = IF target = "record" THEN RecordIter(trecord) ELSE tcursor

\* for x in target: the loop starts
OuterIter ==
  /\ outer = "new"
  /\ target # "none"
  /\ Rewound
  /\ outer' = "running"
  /\ UNCHANGED <<codecVars, cleanVars, target, trecord, yielded, inner>>

\* The loop asks for its next element: between two runs of its body
OuterNext ==
  /\ outer = "running"
  /\ inner = "idle"
  /\ Len(yielded) < MaxYield
  /\ \E n \in {NextOf} :
       /\ tfield' = n.f
       /\ tcursor' = n.cursor
       /\ outer' = IF n.stop THEN "done" ELSE "running"
       /\ yielded' = IF n.stop THEN yielded ELSE Append(yielded, n.item)
  /\ UNCHANGED <<codecVars, cleanVars, target, trecord, inner>>

\* In the body: for y in target, a second loop over the same object
InnerIter ==
  /\ outer = "running"
  /\ inner = "idle"
  /\ yielded # << >>
  /\ Rewound
  /\ inner' = "running"
  /\ UNCHANGED <<codecVars, cleanVars, target, trecord, outer, yielded>>

\* The second loop asks for its next element
InnerNext ==
  /\ inner = "running"
  /\ \E n \in {NextOf} :
       /\ tfield' = n.f
       /\ tcursor' = n.cursor
       /\ inner' = IF n.stop THEN "idle" ELSE "running"
  /\ UNCHANGED <<codecVars, cleanVars, target, trecord, outer, yielded>>

\* The second loop is left by break
InnerBreak ==
  /\ inner = "running"
  /\ inner' = "idle"
  /\ UNCHANGED <<codecVars, cleanVars, target, tfield, trecord, tcursor, outer,
                 yielded>>

\* In the body: target.get_subfields(code), target[code] or code in target,
\* each one whole loop over the Field
Lookup ==
  /\ target = "field"
  /\ outer = "running"
  /\ inner = "idle"
  /\ yielded # << >>
  /\ tfield' = Iterated(tfield)
  /\ UNCHANGED <<codecVars, cleanVars, target, trecord, tcursor, outer, yielded,
                 inner>>

NextIter ==
  OuterIter \/ OuterNext \/ InnerIter \/ InnerNext \/ InnerBreak \/ Lookup

SpecIter == InitIter /\ [][NextIter]_vars

(***************************************************************************)
(* Properties.  What a buffer's description says the decoder should find   *)
(* is computed from the description alone, not by the decoder.             *)
(***************************************************************************)
\* The (code, value) pairs of the valid segments of a data field, in order
ExpectedItems(fd) ==
  Concat([k \in DOMAIN fd.segs |->
            IF fd.segs[k].valid
            THEN << <<fd.segs[k].code, fd.segs[k].text>> >> ELSE << >>])

\* The two indicators of a data field: missing ones are blank, extra ones
\* are ignored
ExpectedIndicators(fd) ==
  << <<(fd.ind \o <<32, 32>>)[1]>>, <<(fd.ind \o <<32, 32>>)[2]>> >>

\* What a field holds: tag, control payload, indicators, (code, value) pairs
FieldContent(f) ==
  [tag |-> f.tag, data |-> f.data, indicators |-> f.indicators,
   subfields |-> FieldItems(f)]

Content(r) == [k \in DOMAIN r.fields |-> FieldContent(r.fields[k])]

ExpectedContent(fd) ==
  IF fd.control
  THEN [tag |-> fd.tag, data |-> fd.text, indicators |-> << >>,
        subfields |-> << >>]
  ELSE [tag |-> fd.tag, data |-> << >>, indicators |-> ExpectedIndicators(fd),
        subfields |-> ExpectedItems(fd)]

\* The constructor returned a Record
Returned == pc \notin {"new", "failed"}

\* The constructor was given a buffer whose layout is intact
Intact == Len(marc) > 0 /\ input.damage = "none"

IsAscii(bs) == \A i \in DOMAIN bs : bs[i] < 128

\* C1.  Round trip: when the decoder accepts a buffer, as_marc of the Record
\* succeeds, the decoder accepts those bytes, and the Record it makes of
\* them has the same fields: same tags in the same order, same control
\* payloads, same two indicators, same (code, value) pairs.
RoundTrip ==
  /\ (pc = "encoded" /\ Len(marc) > 0) => out.exc = "none"
  /\ (pc = "redecoded" /\ Len(marc) > 0) =>
       /\ exc2 = "none"
       /\ rec2 # << >>
       /\ Content(rec2[1]) = Content(rec[1])

\* A round trip of a record with a data field that has an accented value
\* and a repeated code, and a control field
RoundTripWitness ==
  /\ pc = "redecoded"
  /\ Intact
  /\ input.fields = <<Dat010, CtlDB>>
  /\ exc2 = "none"
  /\ Len(rec2[1].fields) = Len(input.fields)
  /\ FieldItems(rec2[1].fields[1]) # << >>

\* C2.  Idempotence of the escaper: clean(clean(t)) = clean(t) for every
\* text t.
Idempotent == cpc = "twice" => twice = once

\* Every ampersand of v starts an entity (&name; or &#digits;), and v has
\* no angle bracket
NoBareMarkup(v) ==
  \A i \in DOMAIN v :
    /\ v[i] \notin {Ord("<"), Ord(">")}
    /\ v[i] = Ord("&") =>
         \E j \in (i + 2)..Len(v) :
           /\ v[j] = Ord(";")
           /\ \A k \in (i + 1)..(j - 1) :
                IsWordChar(v[k]) \/ (k = i + 1 /\ v[k] = Ord("#"))

\* C3.  Totality of the escaper: clean(t) never raises, and what it returns
\* has no bare ampersand or angle bracket outside an entity.
Total == cpc # "new" => once.exc = "none" /\ NoBareMarkup(once.v)

\* The fields the decoder should return when content errors are recovered
\* locally: every field of the description but the control fields whose
\* payload is not UTF-8
Recovered(fds) ==
  Concat([k \in DOMAIN fds |->
            IF fds[k].control /\ ~fds[k].valid THEN << >>
            ELSE <<ExpectedContent(fds[k])>>])

\* C4.  Content errors are recovered locally: for an intact buffer whose
\* leader and indicators are ASCII, a control payload or a subfield value that is not
\* UTF-8 costs only that field or that subfield; the constructor returns
\* the Record with all the other fields.
RecoveredLocally ==
  ( /\ pc # "new"
    /\ Intact
    /\ IsAscii(Slice(marc, 0, LEADER_LENGTH))
    /\ \A k \in DOMAIN input.fields : IsAscii(input.fields[k].ind)
    /\ Recovered(input.fields) # << >> ) =>
      /\ exc = "none"
      /\ rec # << >>
      /\ Content(rec[1]) = Recovered(input.fields)

\* C5.  A buffer with fewer than 24 bytes, or whose first 24 bytes are not
\* ASCII, is refused with LeaderError.
LeaderRefused ==
  ( /\ pc # "new"
    /\ Len(marc) > 0
    /\ Len(marc) < LEADER_LENGTH \/ ~IsAscii(Slice(marc, 0, LEADER_LENGTH)) ) =>
      exc = "LeaderError" /\ rec = << >>

\* The base address written in bytes 12-16 of the buffer
BaseOf(bs) == ParseInt(Slice(bs, 12, 17), 10)

\* C6.  Directory integrity: for a buffer with a 24-byte ASCII leader and a
\* base address that is a number, the constructor raises BaseAddressError
\* when the base address is 0 or negative, BaseAddressLengthError when it
\* is at least the length of the buffer, and DirectoryError when the bytes
\* from 24 to base address - 1 are not a multiple of 12 in number; it
\* returns no Record.
DirectoryIntegrity ==
  ( /\ pc # "new"
    /\ Len(marc) >= LEADER_LENGTH
    /\ IsAscii(Slice(marc, 0, LEADER_LENGTH))
    /\ BaseOf(marc).ok ) =>
      /\ BaseOf(marc).v <= 0 => exc = "BaseAddressError" /\ rec = << >>
      /\ (BaseOf(marc).v > 0 /\ BaseOf(marc).v >= Len(marc)) =>
           exc = "BaseAddressLengthError" /\ rec = << >>
      /\ ( /\ BaseOf(marc).v > 0
           /\ BaseOf(marc).v < Len(marc)
           /\ Len(Slice(marc, LEADER_LENGTH, BaseOf(marc).v - 1))
                % DIRECTORY_ENTRY_LENGTH # 0 ) =>
           exc = "DirectoryError" /\ rec = << >>

\* The element of one field, every text put through the escaper
ProjectedField(f) ==
  IF f.attrs = ControlAttrs
  THEN << Lit("\t\t<marc:controlfield tag=\""), Txt(f.tag), Lit("\">"),
          Txt(clean(f.data).v), Lit("</marc:controlfield>\n") >>
  ELSE << Lit("\t\t<marc:datafield tag=\""), Txt(f.tag),
          Lit("\" ind1=\""), Txt(f.indicators[1]),
          Lit("\" ind2=\""), Txt(f.indicators[2]), Lit("\">\n") >>
         \o Concat([k \in DOMAIN FieldItems(f) |->
                      << Lit("\t\t\t<marc:subfield code=\""),
                         Txt(FieldItems(f)[k][1]), Lit("\">"),
                         Txt(clean(FieldItems(f)[k][2]).v),
                         Lit("</marc:subfield>\n") >>])
         \o << Lit("\t\t</marc:datafield>\n") >>

\* The fragment of a Record, the leader put through the escaper
Projected(r) ==
  << Lit("\t<marc:record>\n"), Lit("\t\t<marc:leader>"),
     Txt(clean(r.leader).v), Lit("</marc:leader>\n") >>
    \o Concat([k \in DOMAIN r.fields |-> ProjectedField(r.fields[k])])
    \o << Lit("\t</marc:record>\n") >>

\* C7.  The XML projection: as_xml returns the leader element holding the
\* escaped leader, then one element per field in field order, a data
\* element holding one subfield element per subfield in order, every
\* payload and value escaped.
Projection ==
  pc = "projected" =>
    /\ xml.exc = "none"
    /\ xml.v = Projected(rec[1])

\* C8.  Subfield order and duplicates: the field of indicators and the
\* segments a V1, a V2, b V3 decodes to [(a, V1), (a, V2), (b, V3)]; every
\* data field of an intact buffer decodes to the pairs of its valid
\* segments that are not empty, in buffer order, duplicate codes kept; and
\* get_subfields(code) returns the values of that code in that order.
SubfieldOrder ==
  (Returned /\ Intact) =>
    /\ Len(rec[1].fields) = Len(input.fields)
    /\ \A k \in DOMAIN input.fields :
         /\ ~input.fields[k].control =>
              FieldItems(rec[1].fields[k]) = ExpectedItems(input.fields[k])
         /\ input.fields[k] = Dat245 =>
              FieldItems(rec[1].fields[k])
                = << <<S(<<"a">>), S(<<"V", "1">>)>>,
                     <<S(<<"a">>), S(<<"V", "2">>)>>,
                     <<S(<<"b">>), S(<<"V", "3">>)>> >>
    /\ pc = "looked" =>
         lookup.values
           = ValuesOf(ExpectedItems(input.fields[lookup.field]), {lookup.code})

\* A lookup of code a in the field a V1, a V2, b V3 that returned both
\* values
SubfieldOrderWitness ==
  /\ pc = "looked"
  /\ Intact
  /\ input.fields[lookup.field] = Dat245
  /\ lookup.code = S(<<"a">>)
  /\ lookup.values = <<S(<<"V", "1">>), S(<<"V", "2">>)>>

\* C9 as it is stated.  The leader of every Record is 24 characters long
\* and holds 4500 at positions 20-23, whatever leader it was made from.
LeaderInvariant ==
  rec # << >> =>
    /\ Len(rec[1].leader) = LEADER_LENGTH
    /\ SubSeq(rec[1].leader, 21, 24) = S(<<"4", "5", "0", "0">>)

\* The last n characters of s (all of s when it is shorter)
Last(s, n) == SubSeq(s, IF Len(s) > n THEN Len(s) - n + 1 ELSE 1, Len(s))

\* C9, amended.  A Record made with no buffer has the leader the
\* constructor forms of its leader argument: of an argument of 20
\* characters or more, 24 characters with 22 at positions 10-11 and 4500 at
\* positions 20-23; of a shorter one, fewer than 24 characters, the last 4
\* being 4500.  A Record made of a buffer has a leader of 24 characters:
\* the first 24 bytes of the buffer as they are when they are ASCII, else
\* the leader the constructor formed.  No operation changes the leader.
LeaderAsBuilt ==
  rec # << >> =>
    /\ (marc = << >> /\ Len(leaderArg) >= 20) =>
         /\ Len(rec[1].leader) = LEADER_LENGTH
         /\ SubSeq(rec[1].leader, 11, 12) = S(<<"2", "2">>)
         /\ SubSeq(rec[1].leader, 21, 24) = S(<<"4", "5", "0", "0">>)
    /\ (marc = << >> /\ Len(leaderArg) < 20) =>
         /\ Len(rec[1].leader) < LEADER_LENGTH
         /\ Last(rec[1].leader, 4) = S(<<"4", "5", "0", "0">>)
    /\ (marc # << >> /\ IsAscii(Slice(marc, 0, LEADER_LENGTH))) =>
         rec[1].leader = SubSeq(marc, 1, LEADER_LENGTH)
    /\ (marc # << >> /\ ~IsAscii(Slice(marc, 0, LEADER_LENGTH))) =>
         /\ Len(rec[1].leader) = LEADER_LENGTH
         /\ Len(leaderArg) >= 20
         /\ SubSeq(rec[1].leader, 11, 12) = S(<<"2", "2">>)
         /\ SubSeq(rec[1].leader, 21, 24) = S(<<"4", "5", "0", "0">>)

\* A Record made of a buffer whose leader ends 4510, projected or encoded,
\* that still holds those characters
LeaderAsBuiltWitness ==
  /\ pc \in {"encoded", "projected"}
  /\ input.leader = LeaderOdd
  /\ SubSeq(rec[1].leader, 21, 24) = S(<<"4", "5", "1", "0">>)

\* The control tags: the digit tags below 010, and DB and SYS
ControlTags ==
  {<<48, 48, d>> : d \in 48..57} \cup {S(<<"D", "B", " ">>), S(<<"S", "Y", "S">>)}

\* C10.  Classification: a tag of three characters is a control tag exactly
\* when it is all digits and below 010, or is DB or SYS; the decoder's test
\* on the directory tag, the attributes the Field constructor gives the
\* Field (data, or indicators and subfields) and is_control_field agree
\* with that and so with each other (a disagreement of decoder and
\* constructor would raise).
Classification ==
  /\ {S(<<"0", "0", "1">>), S(<<"0", "0", "8">>), S(<<"D", "B", " ">>),
      S(<<"S", "Y", "S">>)} \subseteq ControlTags
  /\ {S(<<"0", "1", "0">>), S(<<"2", "4", "5">>), S(<<"8", "8", "0">>)}
       \cap ControlTags = {}
  /\ pc # "new" =>
       /\ exc = "none"
       /\ Len(rec[1].fields) = 1
       /\ rec[1].fields[1].tag = input.fields[1].tag
       /\ DecoderIsControl(input.fields[1].tag)
            <=> input.fields[1].tag \in ControlTags
       /\ is_control_field(rec[1].fields[1])
            <=> input.fields[1].tag \in ControlTags
       /\ rec[1].fields[1].attrs
            = IF input.fields[1].tag \in ControlTags
              THEN ControlAttrs ELSE DataAttrs
       /\ input.fields[1].tag \in ControlTags =>
            rec[1].fields[1].data = SubSeq(marc, 38, Len(marc) - 2)

\* The field DB, built as a control field
ClassificationWitness ==
  /\ pc = "built"
  /\ input.fields[1].tag = S(<<"D", "B", " ">>)
  /\ rec[1].fields[1].attrs = ControlAttrs
  /\ is_control_field(rec[1].fields[1])

\* The elements of the object traversed
Elements == IF target = "field" THEN FieldItems(tfield) ELSE trecord.fields

\* C11.  Traversals are independent and finite: whatever second traversal
\* or lookup of the same object the body of a loop makes, the loop is given
\* every element once, in order (what it has been given is always the
\* first elements of the object), and when it ends it has been given all
\* of them.
TraversalIndependent ==
  /\ Len(yielded) <= Len(Elements)
  /\ yielded = SubSeq(Elements, 1, Len(yielded))
  /\ outer = "done" => yielded = Elements

=============================================================================
